---- MODULE Spec2Model ----
(***************************************************************************)
(* A model of the CrewAI research assistant: the request handler of        *)
(* app.py (research_process and the handler chain of the start button),    *)
(* the agent factory of researcher.py (create_researcher) and the Exa      *)
(* answer tool (EXAAnswerTool._run).                                       *)
(*                                                                         *)
(* Python strings are TLA+ strings; f-strings are built with \o.  The      *)
(* three emoji of the status messages are written as their short codes     *)
(* (":warning:", ":x:", ":white_check_mark:") because the module is ASCII. *)
(* Python's None is the value None below; "not v" is Falsy(v).             *)
(***************************************************************************)
EXTENDS Naturals, Sequences, FiniteSets, TLC

VARIABLES
    env,        \* os.environ, restricted to the three credential variables
    pc,         \* position of the start button's handler chain
    req,        \* the inputs of the request being handled (the last one submitted)
    fault,      \* history: what the agent chain of this request does (an Outcome)
    propagated, \* <<>> or <<text>>: the exception research_process let escape
    status,     \* status_message: first output of research_process
    result,     \* research_output: second output of research_process
    calls,      \* the researcher.py functions research_process invoked, in order
    llmCalls,   \* the arguments of every LLM(...) constructor call of this request
    agents,     \* the Agent objects constructed by this request
    download,   \* value of the download_file component: <<>> or <<path>>
    visible,    \* visibility of the download_file component
    disk,       \* content of research_report.md: <<>> (no file) or <<text>>
    saveOk,     \* history: whether the last write of research_report.md could succeed
    lastExa,    \* history: the EXA key at startup, then the last non-empty one submitted
    stored,     \* history: providers for which an earlier request stored a non-empty key
    selection,  \* argument of a direct create_researcher call
    raised,     \* <<>> or <<text>>: the exception a direct call let escape
    toolQuery,  \* the query of the last EXAAnswerTool._run call
    toolPosts,  \* the HTTP POSTs issued by the running EXAAnswerTool._run call
    toolResp,   \* the HTTP response (or transport failure) that call got
    toolOut,    \* <<>> or <<string>>: what _run returned
    toolRaised, \* whether _run raised to its caller
    rpc,        \* concurrent requests: the position of each request's thread
    rreq,       \* concurrent requests: each request's inputs
    rstatus,    \* concurrent requests: each request's validation outcome
    rllm        \* concurrent requests: the LLM(...) arguments of each request

vars == <<env, pc, req, fault, propagated, status, result, calls, llmCalls, agents,
          download, visible, disk, saveOk, lastExa, stored, selection, raised, toolQuery, toolPosts, toolResp,
          toolOut, toolRaised, rpc, rreq, rstatus, rllm>>

appVars  == <<pc, req, fault, propagated, status, result, calls, download, visible,
              disk, saveOk, lastExa, stored>>
factVars == <<selection, raised>>
toolVars == <<toolQuery, toolPosts, toolResp, toolOut, toolRaised>>
concVars == <<rpc, rreq, rstatus, rllm>>

-----------------------------------------------------------------------------
(* Values *)

None == "<None>"
Falsy(v) == v \in {None, ""}

EnvVars == {"OPENAI_API_KEY", "GROQ_API_KEY", "EXA_API_KEY"}
Providers == {"OpenAI", "GROQ", "Ollama"}

\* What the environment can hold at startup (load_dotenv): unset, or a key.
StartupKeys == {None, "env-key"}
\* What the key text boxes can submit.
ProviderKeys == {"", "sk-1"}
ExaKeys == {"", "exa-1", "exa-2"}
\* The drop-downs' choices, and the empty value an API client can send.
OpenAIChoices == {"GPT-3.5", ""}
GroqChoices == {"llama2-70b-4096"}
OllamaChoices == {"llama2", ""}
Topics == {"Research X"}

\* What the agent chain can do: where it raises, with what text, and what
\* str(result) is when it does not.
Faults == {"none", "LLM", "Agent", "create_research_task", "run_research", "str"}
ExcTexts == {"boom"}
ResultTexts == {"", "# Executive Summary"}

WarnOpenAI == ":warning: OpenAI API key is required"
WarnGroq == ":warning: GROQ API key is required"
WarnExa == ":warning: EXA API key is required for using search tools"
WarnOllama == ":warning: No Ollama models found. Please make sure Ollama is running"
Completed == ":white_check_mark: Research completed!"
ErrorPrefix == ":x: Error occurred: "
Passed == "<passed>"

ReportPath == "research_report.md"

\* The inputs of one click.  The fields of the providers that are not selected
\* hold their components' initial values (app.py lines 117, 126, 135; empty
\* key boxes): research_process never reads them.
RequestOf(p, key, model, exa, topic) ==
    [provider |-> p,
     openai_api_key |-> IF p = "OpenAI" THEN key ELSE "",
     groq_api_key |-> IF p = "GROQ" THEN key ELSE "",
     exa_api_key |-> exa,
     openai_model |-> IF p = "OpenAI" THEN model ELSE "GPT-3.5",
     groq_model |-> IF p = "GROQ" THEN model ELSE "llama2-70b-4096",
     ollama_model |-> IF p = "Ollama" THEN model ELSE "llama2",
     task_description |-> topic]

Requests ==
    {RequestOf("OpenAI", k, m, x, t) :
        k \in ProviderKeys, m \in OpenAIChoices, x \in ExaKeys, t \in Topics}
    \cup {RequestOf("GROQ", k, m, x, t) :
        k \in ProviderKeys, m \in GroqChoices, x \in ExaKeys, t \in Topics}
    \cup {RequestOf("Ollama", "", m, x, t) :
        m \in OllamaChoices, x \in ExaKeys, t \in Topics}

\* The outcomes of the agent chain: it returns res, or raises text at f.
Outcomes ==
    {[f |-> "none", text |-> "", res |-> r] : r \in ResultTexts}
    \cup {[f |-> f, text |-> t, res |-> ""] : f \in Faults \ {"none"}, t \in ExcTexts}

NoOutcome == [f |-> "none", text |-> "", res |-> ""]

NoRequest ==
    [provider |-> "", openai_api_key |-> "", groq_api_key |-> "", exa_api_key |-> "",
     openai_model |-> "", groq_model |-> "", ollama_model |-> "", task_description |-> ""]

-----------------------------------------------------------------------------
(* researcher.py: EXAAnswerTool._run *)

AnswerUrl == "https://api.exa.ai/answer"

\* Lines 48-49: one line per citation, in the order of the list.
RECURSIVE CitationLines(_)
CitationLines(cs) ==
    IF cs = <<>> THEN ""
    ELSE "- " \o Head(cs).title \o " (" \o Head(cs).url \o ")\n"
         \o CitationLines(Tail(cs))

\* Variant: the header is written whether or not there are citations.
FormatAnswerAlwaysHeader(answer, citations) ==
    "Answer: " \o answer \o "\n\n" \o "Citations:\n" \o CitationLines(citations)

\* Lines 45-51.
FormatAnswer(answer, citations) ==
    "Answer: " \o answer \o "\n\n"
    \o (IF citations # <<>> THEN "Citations:\n" \o CitationLines(citations) ELSE "")

\* Lines 21-32: the one request _run sends.
PostOf(e, query) ==
    [url |-> AnswerUrl, query |-> query, text |-> TRUE, key |-> e["EXA_API_KEY"]]

\* raise_for_status raises for the 4xx and 5xx codes.
IsHttpError(code) == code >= 400 /\ code < 600

\* Variant: the request is sent again once when it failed.
ExaRunRetrying(e, query, resp) ==
    LET failed == resp.kind = "transport" \/ IsHttpError(resp.code)
    IN [posts  |-> IF failed THEN <<PostOf(e, query), PostOf(e, query)>>
                   ELSE <<PostOf(e, query)>>,
        raised |-> failed \/ resp.answer = <<>>,
        out    |-> IF failed \/ resp.answer = <<>> THEN <<>>
                   ELSE <<FormatAnswer(resp.answer[1],
                            IF resp.citations = <<>> THEN <<>> ELSE resp.citations[1])>>]

\* Lines 20-51: one POST; a transport failure or an error status is logged and
\* raised again; a body without "answer" raises KeyError; otherwise the
\* formatted text is returned.  In a response, answer is <<>> when the body has
\* no such key (or is not JSON), citations is <<>> when the key is missing and
\* <<list>> when it is there.
ExaRun(e, query, resp) ==
    LET failed == resp.kind = "transport" \/ IsHttpError(resp.code)
    IN [posts  |-> <<PostOf(e, query)>>,
        raised |-> failed \/ resp.answer = <<>>,
        out    |-> IF failed \/ resp.answer = <<>> THEN <<>>
                   ELSE <<FormatAnswer(resp.answer[1],
                            IF resp.citations = <<>> THEN <<>> ELSE resp.citations[1])>>]

-----------------------------------------------------------------------------
(* researcher.py: create_researcher *)

\* Variant: every name the mapping does not resolve becomes the default.
ResolveOpenAIModelDefaulting(model) ==
    IF model = "GPT-3.5" THEN "gpt-3.5-turbo"
    ELSE IF model = "GPT-4" THEN "gpt-4"
    ELSE "gpt-3.5-turbo"

\* Variant: without the fallback for the empty model.
ResolveOpenAIModelNoFallback(model) ==
    IF model = "GPT-3.5" THEN "gpt-3.5-turbo"
    ELSE IF model = "GPT-4" THEN "gpt-4"
    ELSE model

\* Lines 86-93: the friendly-name mapping, then the fallback for the empty model.
ResolveOpenAIModel(model) ==
    LET mapped == IF model = "GPT-3.5" THEN "gpt-3.5-turbo"
                  ELSE IF model = "GPT-4" THEN "gpt-4"
                  ELSE model
    IN IF mapped = "" THEN "gpt-3.5-turbo" ELSE mapped

\* The arguments create_researcher passes to LLM(...).  A key that is not in
\* the environment is read as None and passed on as it is.
LLMArgs(e, sel) ==
    IF sel.provider = "GROQ"
    THEN [api_key |-> e["GROQ_API_KEY"], base_url |-> None,
          model |-> "groq/" \o sel.model]
    ELSE IF sel.provider = "Ollama"
    THEN [api_key |-> None, base_url |-> "http://localhost:11434",
          model |-> "ollama/" \o sel.model]
    ELSE [api_key |-> e["OPENAI_API_KEY"], base_url |-> None,
          model |-> "openai/" \o ResolveOpenAIModel(sel.model)]

\* Variant: the credential of a credentialed provider is checked first.
CreateResearcherChecked(e, sel, f, text) ==
    LET missing == \/ sel.provider = "GROQ" /\ e["GROQ_API_KEY"] \in {"<None>", ""}
                   \/ sel.provider = "OpenAI" /\ e["OPENAI_API_KEY"] \in {"<None>", ""}
        failed == missing \/ f \in {"LLM", "Agent"}
    IN [llmCalls |-> IF missing THEN <<>> ELSE <<LLMArgs(e, sel)>>,
        agents   |-> IF failed THEN <<>>
                     ELSE <<[role |-> "Research Analyst", llm |-> LLMArgs(e, sel),
                             tools |-> <<"Ask Exa a question">>]>>,
        raised   |-> IF missing THEN <<"ConfigurationError">>
                     ELSE IF failed THEN <<text>> ELSE <<>>]

\* One call of create_researcher.  f is where the libraries raise ("LLM": the
\* LLM constructor, "Agent": the Agent constructor; anything else: nowhere in
\* this function).  The function has no check and no handler of its own.
CreateResearcher(e, sel, f, text) ==
    [llmCalls |-> <<LLMArgs(e, sel)>>,
     agents   |-> IF f \in {"LLM", "Agent"} THEN <<>>
                  ELSE <<[role |-> "Research Analyst", llm |-> LLMArgs(e, sel),
                          tools |-> <<"Ask Exa a question">>]>>,
     raised   |-> IF f \in {"LLM", "Agent"} THEN <<text>> ELSE <<>>]

-----------------------------------------------------------------------------
(* app.py: research_process *)

\* Variant: the provider's key is stored like the EXA key, only when non-empty.
SetEnvironmentKeepingKey(e, r) ==
    LET e1 == IF r.provider = "OpenAI" /\ r.openai_api_key # ""
              THEN [e EXCEPT !["OPENAI_API_KEY"] = r.openai_api_key]
              ELSE IF r.provider = "GROQ" /\ r.groq_api_key # ""
              THEN [e EXCEPT !["GROQ_API_KEY"] = r.groq_api_key]
              ELSE e
    IN IF r.exa_api_key # "" THEN [e1 EXCEPT !["EXA_API_KEY"] = r.exa_api_key] ELSE e1

\* Variant: the EXA key is stored like the provider's key, unconditionally.
SetEnvironmentClearingExa(e, r) ==
    LET e1 == IF r.provider = "OpenAI"
              THEN [e EXCEPT !["OPENAI_API_KEY"] = r.openai_api_key]
              ELSE IF r.provider = "GROQ"
              THEN [e EXCEPT !["GROQ_API_KEY"] = r.groq_api_key]
              ELSE e
    IN [e1 EXCEPT !["EXA_API_KEY"] = r.exa_api_key]

\* Lines 36-47: the chosen provider's key is stored unconditionally, the EXA
\* key only when one was submitted.
SetEnvironment(e, r) ==
    LET e1 == IF r.provider = "OpenAI"
              THEN [e EXCEPT !["OPENAI_API_KEY"] = r.openai_api_key]
              ELSE IF r.provider = "GROQ"
              THEN [e EXCEPT !["GROQ_API_KEY"] = r.groq_api_key]
              ELSE e
    IN IF r.exa_api_key # "" THEN [e1 EXCEPT !["EXA_API_KEY"] = r.exa_api_key] ELSE e1

SelectedModel(r) ==
    IF r.provider = "OpenAI" THEN r.openai_model
    ELSE IF r.provider = "GROQ" THEN r.groq_model
    ELSE r.ollama_model

\* Lines 50-61: the status of the first failed check, or Passed.
CheckRequiredKeys(e, r) ==
    IF r.provider = "OpenAI" /\ Falsy(e["OPENAI_API_KEY"]) THEN WarnOpenAI
    ELSE IF r.provider = "GROQ" /\ Falsy(e["GROQ_API_KEY"]) THEN WarnGroq
    ELSE IF r.provider # "Ollama" /\ Falsy(e["EXA_API_KEY"]) THEN WarnExa
    ELSE IF r.provider = "Ollama" /\ Falsy(SelectedModel(r)) THEN WarnOllama
    ELSE Passed

\* Variant: the handler covers run_research only, so what create_researcher
\* or create_research_task raises escapes research_process.
ResearchChainNarrowTry(e, r, f, text, res) ==
    LET sel == [provider |-> r.provider, model |-> SelectedModel(r)]
        cr  == CreateResearcher(e, sel, f, text)
        early == f \in {"LLM", "Agent", "create_research_task"}
    IN [calls      |-> IF cr.raised # <<>> THEN <<"create_researcher">>
                       ELSE IF f = "create_research_task"
                       THEN <<"create_researcher", "create_research_task">>
                       ELSE <<"create_researcher", "create_research_task",
                              "run_research">>,
        llmCalls   |-> cr.llmCalls,
        agents     |-> cr.agents,
        propagated |-> IF early THEN <<text>> ELSE <<>>,
        status     |-> IF f = "none" THEN Completed
                       ELSE IF early THEN "" ELSE ErrorPrefix \o text,
        result     |-> IF f = "none" THEN res ELSE ""]

\* Lines 64-82: the agent chain inside try/except Exception.  f is where the
\* chain raises, text the exception's str(), res the str() of the crew's output.
ResearchChain(e, r, f, text, res) ==
    LET sel == [provider |-> r.provider, model |-> SelectedModel(r)]
        cr  == CreateResearcher(e, sel, f, text)
        invoked == IF cr.raised # <<>> THEN <<"create_researcher">>
                   ELSE IF f = "create_research_task"
                   THEN <<"create_researcher", "create_research_task">>
                   ELSE <<"create_researcher", "create_research_task", "run_research">>
    IN [calls      |-> invoked,
        llmCalls   |-> cr.llmCalls,
        agents     |-> cr.agents,
        propagated |-> <<>>,
        status     |-> IF f = "none" THEN Completed ELSE ErrorPrefix \o text,
        result     |-> IF f = "none" THEN res ELSE ""]

\* The whole of research_process, as run against the environment e.
ResearchProcess(e, r, f, text, res) ==
    LET e2 == SetEnvironment(e, r)
        check == CheckRequiredKeys(e2, r)
    IN IF check # Passed
       THEN [env |-> e2, calls |-> <<>>, llmCalls |-> <<>>, agents |-> <<>>,
             propagated |-> <<>>, status |-> check, result |-> ""]
       ELSE [env |-> e2] @@ ResearchChain(e2, r, f, text, res)

\* Variant: without the guard for empty content.
CreateMarkdownFileUnguarded(content, writeOk) ==
    IF writeOk THEN [value |-> <<ReportPath>>, written |-> <<content>>]
    ELSE [value |-> <<>>, written |-> <<>>]

\* Lines 241-252: nothing to save for empty content; None when the write fails.
CreateMarkdownFile(content, writeOk) ==
    IF content = "" THEN [value |-> <<>>, written |-> <<>>]
    ELSE IF writeOk THEN [value |-> <<ReportPath>>, written |-> <<content>>]
    ELSE [value |-> <<>>, written |-> <<>>]

-----------------------------------------------------------------------------
(* The application: requests handled one after the other *)

\* Nothing submitted yet: empty outputs, the download component hidden
\* (app.py lines 199-209).
AppIdle ==
    /\ pc = "ready"
    /\ req = NoRequest
    /\ fault = NoOutcome
    /\ propagated = <<>>
    /\ status = ""
    /\ result = ""
    /\ calls = <<>>
    /\ llmCalls = <<>>
    /\ agents = <<>>
    /\ download = <<>>
    /\ visible = FALSE
    /\ disk = <<>>
    /\ saveOk = TRUE
    /\ lastExa = env["EXA_API_KEY"]
    /\ stored = {}

AppInit == env \in [EnvVars -> StartupKeys] /\ AppIdle

FactIdle == selection = [provider |-> "", model |-> ""] /\ raised = <<>>
NoResponse == [kind |-> "none", code |-> 0, answer |-> <<>>, citations |-> <<>>]
ToolIdle ==
    /\ toolQuery = ""
    /\ toolPosts = <<>>
    /\ toolResp = NoResponse
    /\ toolOut = <<>>
    /\ toolRaised = FALSE
ConcIdle == rpc = <<>> /\ rreq = <<>> /\ rstatus = <<>> /\ rllm = <<>>

Init == AppInit /\ FactIdle /\ ToolIdle /\ ConcIdle

\* start_button.click: research_process on the submitted inputs.
Submit ==
    /\ pc \in {"ready", "done"}
    /\ \E r \in Requests, o \in Outcomes :
         LET out == ResearchProcess(env, r, o.f, o.text, o.res)
         IN /\ req' = r
            /\ fault' = IF out.calls = <<>> THEN NoOutcome ELSE o
            /\ propagated' = out.propagated
            /\ env' = out.env
            /\ status' = out.status
            /\ result' = out.result
            /\ calls' = out.calls
            /\ llmCalls' = out.llmCalls
            /\ agents' = out.agents
            /\ lastExa' = IF r.exa_api_key # "" THEN r.exa_api_key ELSE lastExa
            /\ stored' = stored \cup
                  {p \in {"OpenAI", "GROQ"} :
                      /\ req.provider = p
                      /\ ~Falsy(IF p = "OpenAI" THEN req.openai_api_key
                                ELSE req.groq_api_key)}
    /\ pc' = "processed"
    /\ UNCHANGED <<download, visible, disk, saveOk>>
    /\ UNCHANGED <<factVars, toolVars, concVars>>

\* .then(create_markdown_file, inputs=[research_output], outputs=[download_file])
\* A write that fails leaves the file of an earlier request as it was.
SaveReport ==
    /\ pc = "processed"
    /\ \E writeOk \in BOOLEAN :
         LET out == CreateMarkdownFile(result, writeOk)
         IN /\ download' = out.value
            /\ disk' = IF out.written # <<>> THEN out.written ELSE disk
            /\ saveOk' = writeOk
    /\ pc' = "saved"
    /\ UNCHANGED <<env, req, fault, propagated, status, result, calls, llmCalls, agents, visible,
                   lastExa, stored>>
    /\ UNCHANGED <<factVars, toolVars, concVars>>

\* .then(lambda: gr.update(visible=True), outputs=[download_file])
ShowDownload ==
    /\ pc = "saved"
    /\ visible' = TRUE
    /\ pc' = "done"
    /\ UNCHANGED <<env, req, fault, propagated, status, result, calls, llmCalls,
                   agents, download, disk, saveOk, lastExa, stored>>
    /\ UNCHANGED <<factVars, toolVars, concVars>>

Next == Submit \/ SaveReport \/ ShowDownload

Spec == Init /\ [][Next]_vars

-----------------------------------------------------------------------------
(* Properties of the application *)

ChainOrder == <<"create_researcher", "create_research_task", "run_research">>

\* A request has been handled, and it passed the checks of lines 50-61.
Handled == pc # "ready"
Validated == Handled /\ status \notin {WarnOpenAI, WarnGroq, WarnExa, WarnOllama}
ErrorPair == status = ErrorPrefix \o fault.text /\ result = ""
Offered == visible /\ download # <<>>
SubmittedKey(r) ==
    IF r.provider = "OpenAI" THEN r.openai_api_key
    ELSE IF r.provider = "GROQ" THEN r.groq_api_key
    ELSE None

\* C1: a validated request runs create_researcher, create_research_task and
\* run_research in that order; when one of them raises, the later ones are not
\* invoked, nothing escapes research_process, and the outputs are the error
\* status carrying the exception's text and an empty result; the outputs are
\* the success status and str(result) only when all three returned.
C1_ChainBoundary ==
    Validated =>
        /\ propagated = <<>>
        /\ calls # <<>>
        /\ calls = SubSeq(ChainOrder, 1, Len(calls))
        /\ fault.f \in {"LLM", "Agent"} =>
              calls = <<"create_researcher">> /\ ErrorPair
        /\ fault.f = "create_research_task" =>
              calls = <<"create_researcher", "create_research_task">> /\ ErrorPair
        /\ fault.f = "run_research" => calls = ChainOrder /\ ErrorPair
        /\ status = Completed => calls = ChainOrder /\ fault.f = "none"
        /\ fault.f = "none" => status = Completed /\ result = fault.res

\* C1 happens: run_research was reached and raised, and the error pair is out.
C1_Witness ==
    /\ pc = "processed"
    /\ fault.f = "run_research"
    /\ calls = ChainOrder
    /\ status = ":x: Error occurred: boom"
    /\ result = ""

\* C2: whatever was stored before, a GROQ (OpenAI) request submitting an empty
\* GROQ (OpenAI) key gets the "GROQ (OpenAI) API key is required" status with
\* an empty result, and none of the three chain functions is invoked.
C2_EmptyKeyRejected ==
    /\ Handled /\ req.provider = "GROQ" /\ req.groq_api_key = "" =>
          status = WarnGroq /\ result = "" /\ calls = <<>> /\ llmCalls = <<>>
    /\ Handled /\ req.provider = "OpenAI" /\ req.openai_api_key = "" =>
          status = WarnOpenAI /\ result = "" /\ calls = <<>> /\ llmCalls = <<>>

\* C2 happens: an earlier request stored a GROQ key, this one submits none.
C2_Witness ==
    /\ pc = "processed"
    /\ "GROQ" \in stored
    /\ req.provider = "GROQ"
    /\ req.groq_api_key = ""
    /\ status = WarnGroq

\* C8 as stated: once the handler chain is complete, a file holding the result
\* text is offered exactly when the request ended in success.
C8_OfferedIffSuccess ==
    pc = "done" => ((Offered /\ disk = <<result>>) <=> status = Completed)

\* C8 amended: once the handler chain is complete, a file holding the result
\* text is offered exactly when the request ended in success with a non-empty
\* result text and the report file could be written; after a validation
\* failure or an error no file is offered.
C8_OfferedIffSavedSuccess ==
    pc = "done" =>
        /\ (Offered /\ disk = <<result>>)
              <=> (status = Completed /\ result # "" /\ saveOk)
        /\ Offered => disk = <<result>>
        /\ status # Completed => ~Offered

\* C8 happens: the chain is complete after a success and the report is offered.
C8_Witness ==
    /\ pc = "done"
    /\ status = Completed
    /\ result = "# Executive Summary"
    /\ Offered
    /\ disk = <<"# Executive Summary">>

\* C10: the stored EXA key is the last non-empty one submitted (the startup
\* value before any); an OpenAI or GROQ request with a non-empty provider key
\* invokes the chain exactly when the stored EXA key is non-empty and gets the
\* "EXA API key is required" status otherwise; Ollama is never refused for it.
C10_ExaKey ==
    /\ env["EXA_API_KEY"] = lastExa
    /\ Handled /\ req.provider \in {"OpenAI", "GROQ"} /\ SubmittedKey(req) # "" =>
          /\ calls # <<>> <=> ~Falsy(env["EXA_API_KEY"])
          /\ Falsy(env["EXA_API_KEY"]) =>
                status = WarnExa /\ result = "" /\ calls = <<>>
    /\ Handled /\ req.provider = "Ollama" => status # WarnExa

\* C10 happens: an empty EXA submission after a stored one still runs the chain.
C10_Witness ==
    /\ pc = "processed"
    /\ req.provider = "OpenAI"
    /\ req.openai_api_key = "sk-1"
    /\ req.exa_api_key = ""
    /\ env["EXA_API_KEY"] = "exa-2"
    /\ calls = ChainOrder

-----------------------------------------------------------------------------
(* create_researcher called on its own *)

\* What a credential variable can hold when the factory is called directly.
FactoryKeys == {None, "", "sk-1"}
\* The drop-down's OpenAI choices, a custom name and the empty name.
FactoryModels ==
    {"GPT-3.5", "GPT-4", "o1", "o1-mini", "o1-preview", "my-model", "llama2", ""}
Selections == [provider : Providers, model : FactoryModels]
FactoryOutcomes ==
    {[f |-> "none", text |-> "", res |-> ""]}
    \cup {[f |-> f, text |-> t, res |-> ""] : f \in {"LLM", "Agent"}, t \in ExcTexts}

FactoryInit ==
    /\ env \in [EnvVars -> FactoryKeys]
    /\ env["EXA_API_KEY"] = None
    /\ AppIdle /\ FactIdle /\ ToolIdle /\ ConcIdle

\* create_researcher(selection), with the environment as it is.
CallCreateResearcher ==
    /\ \E sel \in Selections, o \in FactoryOutcomes :
         LET out == CreateResearcher(env, sel, o.f, o.text)
         IN /\ selection' = sel
            /\ fault' = o
            /\ llmCalls' = out.llmCalls
            /\ agents' = out.agents
            /\ raised' = out.raised
    /\ UNCHANGED <<env, pc, req, propagated, status, result, calls, download, visible,
                   disk, saveOk, lastExa, stored>>
    /\ UNCHANGED <<toolVars, concVars>>

FactoryNext == CallCreateResearcher

SpecFactory == FactoryInit /\ [][FactoryNext]_vars

Called == selection.provider # ""
Credential(e, provider) ==
    IF provider = "GROQ" THEN e["GROQ_API_KEY"] ELSE e["OPENAI_API_KEY"]
\* The credential of a credentialed provider is not in the environment.
CredentialAbsent ==
    /\ Called
    /\ selection.provider \in {"OpenAI", "GROQ"}
    /\ Credential(env, selection.provider) = None

\* C3 as stated: called for OpenAI or GROQ without the credential in the
\* environment, create_researcher fails before it constructs an LLM handle or an
\* Agent.
C3_FailsBeforeConstruction ==
    CredentialAbsent => raised # <<>> /\ llmCalls = <<>> /\ agents = <<>>

\* C3 amended: create_researcher has no credential check.  Called for OpenAI
\* or GROQ without the credential in the environment, it calls the LLM
\* constructor once, with api_key None; nothing is raised unless that
\* constructor or the Agent constructor raises; otherwise it returns an Agent
\* bound to the handle made without a credential.
C3_NoCredentialCheck ==
    CredentialAbsent =>
        /\ Len(llmCalls) = 1
        /\ llmCalls[1].api_key = None
        /\ raised # <<>> <=> fault.f \in {"LLM", "Agent"}
        /\ raised # <<>> => raised = <<fault.text>> /\ agents = <<>>
        /\ raised = <<>> => Len(agents) = 1 /\ agents[1].llm.api_key = None

\* C3 happens: an Agent came back from a call made without the OpenAI credential.
C3_Witness ==
    /\ selection.provider = "OpenAI"
    /\ env["OPENAI_API_KEY"] = None
    /\ raised = <<>>
    /\ Len(agents) = 1

\* C4: for OpenAI the handle's model is "openai/" and the mapped name: GPT-4
\* gives gpt-4, GPT-3.5 and the empty name give gpt-3.5-turbo; for GROQ and
\* Ollama it is "groq/" and "ollama/" followed by the name as given.
C4_ModelIdentifier ==
    Called =>
        /\ Len(llmCalls) = 1
        /\ selection.provider = "OpenAI" /\ selection.model = "GPT-4" =>
              llmCalls[1].model = "openai/gpt-4"
        /\ selection.provider = "OpenAI" /\ selection.model \in {"GPT-3.5", ""} =>
              llmCalls[1].model = "openai/gpt-3.5-turbo"
        /\ selection.provider = "GROQ" =>
              llmCalls[1].model = "groq/" \o selection.model
        /\ selection.provider = "Ollama" =>
              llmCalls[1].model = "ollama/" \o selection.model

\* C4 happens: the empty OpenAI model was resolved.
C4_Witness ==
    /\ selection = [provider |-> "OpenAI", model |-> ""]
    /\ Len(llmCalls) = 1
    /\ llmCalls[1].model = "openai/gpt-3.5-turbo"

Unresolved(model) == model \notin {"GPT-3.5", "GPT-4"}

\* C5 as stated: for OpenAI every name the mapping does not resolve is
\* replaced by the default gpt-3.5-turbo.
C5_UnresolvedDefaulted ==
    Called /\ selection.provider = "OpenAI" /\ Unresolved(selection.model) =>
        llmCalls[1].model = "openai/gpt-3.5-turbo"

\* C5 amended: for OpenAI a name the mapping does not resolve is passed on
\* unchanged when it is not empty; only the empty name is replaced by the
\* default gpt-3.5-turbo.
C5_UnresolvedPassedOn ==
    Called /\ selection.provider = "OpenAI" /\ Unresolved(selection.model) =>
        /\ selection.model # "" => llmCalls[1].model = "openai/" \o selection.model
        /\ selection.model = "" => llmCalls[1].model = "openai/gpt-3.5-turbo"

\* C5 happens: o1 was selected and reached the LLM constructor as o1.
C5_Witness ==
    /\ selection = [provider |-> "OpenAI", model |-> "o1"]
    /\ Len(llmCalls) = 1
    /\ llmCalls[1].model = "openai/o1"

-----------------------------------------------------------------------------
(* EXAAnswerTool._run called by the agent *)

\* The longest citation list a response carries.
MaxCitations == 2
Citations == {[title |-> "T", url |-> "U"], [title |-> "T2", url |-> "U2"]}
CitationLists == UNION {[1..n -> Citations] : n \in 0..MaxCitations}
Answers == {"X", "Y"}
Queries == {"q1", "q2"}
\* Success, a redirection status that requests hands back as it is, and errors.
StatusCodes == {200, 201, 304, 404, 500}
Bodies ==
    [answer : {<<>>} \cup {<<a>> : a \in Answers},
     citations : {<<>>} \cup {<<cs>> : cs \in CitationLists}]
Responses ==
    {[kind |-> "transport", code |-> 0, answer |-> <<>>, citations |-> <<>>]}
    \cup {[kind |-> "http", code |-> c, answer |-> b.answer, citations |-> b.citations] :
            c \in StatusCodes, b \in Bodies}

ToolInit ==
    /\ env \in [EnvVars -> {None, "exa-1"}]
    /\ env["OPENAI_API_KEY"] = None
    /\ env["GROQ_API_KEY"] = None
    /\ AppIdle /\ FactIdle /\ ToolIdle /\ ConcIdle

\* tool._run(query), answered by resp.
RunTool ==
    /\ \E query \in Queries, resp \in Responses :
         LET out == ExaRun(env, query, resp)
         IN /\ toolQuery' = query
            /\ toolResp' = resp
            /\ toolPosts' = out.posts
            /\ toolOut' = out.out
            /\ toolRaised' = out.raised
    /\ UNCHANGED <<env, llmCalls, agents, appVars, factVars, concVars>>

ToolNext == RunTool

SpecTool == ToolInit /\ [][ToolNext]_vars

ToolCalled == toolResp.kind # "none"
Success ==
    /\ toolResp.kind = "http"
    /\ toolResp.code \in 200..299
    /\ toolResp.answer # <<>>
GivenCitations == IF toolResp.citations = <<>> THEN <<>> ELSE toolResp.citations[1]
CitationLine(c) == "- " \o c.title \o " (" \o c.url \o ")\n"
\* The lines of the first n citations, built from the front of the list.
RECURSIVE LinesUpTo(_, _)
LinesUpTo(cs, n) ==
    IF n = 0 THEN "" ELSE LinesUpTo(cs, n - 1) \o CitationLine(cs[n])

\* C6: on a success response with answer A and citations C, _run returns
\* "Answer: A\n\n", followed when C is not empty by "Citations:\n" and one line
\* "- title (url)\n" per citation in the order of C; without citations, or with
\* an empty list, it returns "Answer: A\n\n" alone.  For answer X and the one
\* citation (T, U) the text holds "Answer: X" and "- T (U)".
C6_FormattedAnswer ==
    Success =>
        /\ ~toolRaised
        /\ GivenCitations = <<>> =>
              toolOut = <<"Answer: " \o toolResp.answer[1] \o "\n\n">>
        /\ GivenCitations # <<>> =>
              toolOut = <<"Answer: " \o toolResp.answer[1] \o "\n\n" \o "Citations:\n"
                          \o LinesUpTo(GivenCitations, Len(GivenCitations))>>
        /\ (/\ toolResp.answer = <<"X">>
            /\ GivenCitations = <<[title |-> "T", url |-> "U"]>>) =>
              toolOut = <<"Answer: X\n\nCitations:\n- T (U)\n">>

\* C6 happens: two citations were formatted in their order.
C6_Witness ==
    /\ toolResp.code = 200
    /\ toolResp.answer = <<"X">>
    /\ toolResp.citations =
          << <<[title |-> "T2", url |-> "U2"], [title |-> "T", url |-> "U"]>> >>
    /\ toolOut = <<"Answer: X\n\nCitations:\n- T2 (U2)\n- T (U)\n">>

\* C7 as stated: every call of _run issues exactly one POST; after a response
\* that is not 2xx, or a transport failure, it raises to its caller, returns
\* no string and has not sent the request again.
C7_OnePostRaisesOnNon2xx ==
    ToolCalled =>
        /\ Len(toolPosts) = 1
        /\ (toolResp.kind = "transport" \/ toolResp.code \notin 200..299) =>
              toolRaised /\ toolOut = <<>>

\* C7 amended: every call of _run issues exactly one POST; after a 4xx or 5xx
\* response (the statuses raise_for_status raises for), or a transport
\* failure, it raises to its caller, returns no string and has not sent the
\* request again.
C7_OnePostRaisesOnErrorStatus ==
    ToolCalled =>
        /\ Len(toolPosts) = 1
        /\ toolPosts[1].url = AnswerUrl
        /\ toolPosts[1].query = toolQuery
        /\ (toolResp.kind = "transport" \/ toolResp.code \in 400..599) =>
              toolRaised /\ toolOut = <<>>

\* C7 happens: a 404 was raised to the caller after the one POST.
C7_Witness ==
    /\ toolResp.kind = "http"
    /\ toolResp.code = 404
    /\ toolRaised
    /\ toolOut = <<>>
    /\ Len(toolPosts) = 1

-----------------------------------------------------------------------------
(* Requests handled concurrently: one thread per request, one shared os.environ *)

\* The number of requests in flight together.
NumRequests == 2
Threads == 1..NumRequests
ConcKeys == {"", "sk-1", "sk-2"}
ConcRequests ==
    {RequestOf("OpenAI", k, "GPT-3.5", "exa-1", "Research X") : k \in ConcKeys}
    \cup {RequestOf("GROQ", k, "llama2-70b-4096", "exa-1", "Research X") : k \in ConcKeys}
    \cup {RequestOf("Ollama", "", "llama2", "exa-1", "Research X")}

ConcInit ==
    /\ env \in [EnvVars -> StartupKeys]
    /\ AppIdle /\ FactIdle /\ ToolIdle
    /\ rpc = [t \in Threads |-> "submitted"]
    /\ rreq \in [Threads -> ConcRequests]
    /\ rstatus = [t \in Threads |-> ""]
    /\ rllm = [t \in Threads |-> <<>>]

concRest == <<llmCalls, agents, appVars, factVars, toolVars>>

\* research_process lines 36-47 in thread t.
StoreKeys(t) ==
    /\ rpc[t] = "submitted"
    /\ env' = SetEnvironment(env, rreq[t])
    /\ rpc' = [rpc EXCEPT ![t] = "stored"]
    /\ UNCHANGED <<rreq, rstatus, rllm, concRest>>

\* Lines 50-61 in thread t: the checks read the environment as it is now.
CheckKeys(t) ==
    /\ rpc[t] = "stored"
    /\ rstatus' = [rstatus EXCEPT ![t] = CheckRequiredKeys(env, rreq[t])]
    /\ rpc' = [rpc EXCEPT ![t] =
                  IF CheckRequiredKeys(env, rreq[t]) = Passed THEN "checked"
                  ELSE "returned"]
    /\ UNCHANGED <<env, rreq, rllm, concRest>>

\* Line 71 in thread t: create_researcher reads the environment as it is now.
BuildResearcher(t) ==
    /\ rpc[t] = "checked"
    /\ rllm' = [rllm EXCEPT ![t] =
                   CreateResearcher(env,
                       [provider |-> rreq[t].provider, model |-> SelectedModel(rreq[t])],
                       "none", "").llmCalls]
    /\ rpc' = [rpc EXCEPT ![t] = "built"]
    /\ UNCHANGED <<env, rreq, rstatus, concRest>>

\* Lines 74-82 in thread t: the task, the run and the return.
RunAndReturn(t) ==
    /\ rpc[t] = "built"
    /\ rpc' = [rpc EXCEPT ![t] = "returned"]
    /\ UNCHANGED <<env, rreq, rstatus, rllm, concRest>>

ConcNext ==
    \E t \in Threads :
        StoreKeys(t) \/ CheckKeys(t) \/ BuildResearcher(t) \/ RunAndReturn(t)

SpecConc == ConcInit /\ [][ConcNext]_vars

\* What the checks of lines 50-53 give for the key a request submitted itself.
OwnKeyStatus(r) ==
    IF r.provider = "OpenAI" /\ r.openai_api_key = "" THEN WarnOpenAI
    ELSE IF r.provider = "GROQ" /\ r.groq_api_key = "" THEN WarnGroq
    ELSE Passed

\* C9: under every interleaving of concurrently handled requests, each
\* request's LLM handle is constructed with the provider key that request
\* submitted, and each request's validation outcome is the one its own
\* submitted key gives.
C9_OwnKeyUnderInterleaving ==
    \A t \in Threads :
        /\ (rllm[t] # <<>> /\ rreq[t].provider \in {"OpenAI", "GROQ"}) =>
              rllm[t][1].api_key = SubmittedKey(rreq[t])
        /\ rstatus[t] # "" =>
              (rstatus[t] \in {WarnOpenAI, WarnGroq} <=> OwnKeyStatus(rreq[t]) # Passed)

====
